---- MODULE Spec2Model ----
(***************************************************************************)
(* DeepSearch AI: the chat agent's orchestration loop (server.ts:          *)
(* ChatAgent.onChatMessage, the streamText call with its tools, step cap   *)
(* and abort signal), the webSearch tool body, the context pruning policy  *)
(* and the chat client (app.tsx: Chat) that sends user Messages, answers   *)
(* the client-side tool and stops a generation.                            *)
(*                                                                         *)
(* Five state machines share the module:                                   *)
(*   SpecSearch  webSearch.execute applied to every provider outcome       *)
(*   SpecPrune   pruneMessages applied once and twice to a message list    *)
(*   Spec        the session: client actions, generation steps, tool       *)
(*               executions, abort (SpecFair adds the scheduling fairness) *)
(*   SpecHistory the stored Messages (this.messages): what appends to      *)
(*               them, the context built from them, the Clear button       *)
(*   SpecNotify  the agent's step sequences together with executeTask's    *)
(*               broadcast and the client's onMessage                      *)
(***************************************************************************)
EXTENDS Integers, Sequences, FiniteSets, TLC

VARIABLES
    \* ---- webSearch.execute (SpecSearch)
    searchQuery,    \* the query argument of execute
    searchIn,       \* what the search provider does with the request
    searchOut,      \* what execute produced: a value, or a raised exception
    \* ---- pruneMessages (SpecPrune)
    pruneIn,        \* the model messages handed to pruneMessages
    pruneOnce,      \* pruneMessages(pruneIn)
    pruneTwice,     \* pruneMessages(pruneMessages(pruneIn))
    prunePc,        \* how many times pruneMessages has been applied
    \* ---- the session (Spec)
    phase,          \* the step sequence: Idle, Generating, Executing, AwaitClient,
                    \* Done, Cancelled, Error
    stepCount,      \* generation steps issued by the running streamText call
    runs,           \* onChatMessage invocations for the current user Message
    stepParts,      \* the Parts appended to the assistant Message in this step
    inflight,       \* call ids of the webSearch executions still running
    handled,        \* how many tool calls of this step the client's onToolCall
                    \* has seen (it sees them in the order they were emitted)
    mismatched,     \* tool calls of earlier steps of this Message that do not
                    \* have exactly one tool-result
    endedBy,        \* why the last streamText call ended
    status,         \* useAgentChat status: ready, submitted, streaming, error
    promptBubble,   \* the rotating prompt bubble is shown
    queued,         \* user Messages sent and not yet picked up by the agent
    messages,       \* the roles of the stored Message sequence
    sent,           \* user Messages accepted so far
    \* ---- the stored history (SpecHistory)
    stored,         \* this.messages: the Messages with their Parts
    context,        \* the messages the last onChatMessage gave to streamText
    \* ---- notifications (SpecNotify)
    tasks,          \* scheduled tasks executed so far
    frames,         \* other frames put on the channel so far
    channel,        \* frames sent to the client and not yet received
    toasts          \* the notifications the client has shown

searchVars == <<searchQuery, searchIn, searchOut>>
pruneVars == <<pruneIn, pruneOnce, pruneTwice, prunePc>>
serverVars == <<phase, stepCount, runs, stepParts, inflight, handled, mismatched, endedBy>>
clientVars == <<status, promptBubble, queued, messages, sent>>
historyVars == <<stored, context>>
notifyVars == <<tasks, frames, channel, toasts>>
vars == <<searchVars, pruneVars, serverVars, clientVars, historyVars, notifyVars>>

Min(a, b) == IF a <= b THEN a ELSE b

NotRun == [kind |-> "not-run"]

(***************************************************************************)
(* webSearch.execute                                                       *)
(***************************************************************************)

\* max_results of the request body
MaxResultsRequested == 5
\* r.content?.slice(0, 500)
SliceLimit == 500
\* the provider may answer with more entries than were requested
MaxProviderResults == 6

Queries == {"q1", "q2"}

Chars(n) == [i \in 1..n |-> "c"]

\* One entry of the provider's results array, as JSON: null, or an object
\* whose content is missing, a number, or a string of some length.
ContentLens == {0, SliceLimit - 1, SliceLimit, SliceLimit + 1}
ItemKinds ==
    {[kind |-> "null", content |-> [kind |-> "undefined", chars |-> <<>>]]}
    \cup {[kind |-> "object", content |-> [kind |-> k, chars |-> <<>>]] :
            k \in {"undefined", "number"}}
    \cup {[kind |-> "object", content |-> [kind |-> "string", chars |-> Chars(n)]] :
            n \in ContentLens}

\* A results array of n entries, alternating two kinds of entry.
ResultsArray(n, a, b) == [i \in 1..n |-> IF i % 2 = 1 THEN a ELSE b]

\* The results property of the response body.
ResultsValues ==
    {[kind |-> k, items |-> <<>>] : k \in {"undefined", "null", "string"}}
    \cup {[kind |-> "array", items |-> ResultsArray(n, a, b)] :
            n \in 0..MaxProviderResults, a \in ItemKinds, b \in ItemKinds}

NoResults == [kind |-> "undefined", items |-> <<>>]

\* The response body: not JSON at all, the JSON value null, or a JSON object.
Bodies ==
    {[kind |-> k, results |-> NoResults] : k \in {"not-json", "null"}}
    \cup {[kind |-> "object", results |-> r] : r \in ResultsValues}

\* What the provider does: the request fails (fetch rejects), or a response
\* with an HTTP status and a body arrives.
ProviderOutcomes ==
    {[fetch |-> "reject", status |-> 0, body |-> [kind |-> "not-json", results |-> NoResults]]}
    \cup {[fetch |-> "resolve", status |-> s, body |-> b] : s \in {200, 500}, b \in Bodies}

Raised(q) == [kind |-> "raised", query |-> q, results |-> <<>>]
Returned(q, rs) == [kind |-> "returned", query |-> q, results |-> rs]

\* String.prototype.slice(0, n)
Slice(chars, n) == SubSeq(chars, 1, Min(Len(chars), n))

\* r.content?.slice(0, 500): undefined stays undefined, a string is cut,
\* anything else has no slice method.
SliceContent(content) ==
    IF content.kind = "string"
    THEN [kind |-> "string", chars |-> Slice(content.chars, SliceLimit)]
    ELSE content

\* the arrow function of data.results?.map: it throws on a null entry
\* (r.title of null) and on content that has no slice method
MapThrows(items) ==
    \E i \in 1..Len(items) :
        \/ items[i].kind = "null"
        \/ items[i].content.kind = "number"

\* title and url are copied as they are and left out here
MapResults(items) ==
    [i \in 1..Len(items) |-> [content |-> SliceContent(items[i].content)]]

\* execute: async ({ query }) => { fetch; response.json(); return {query, results} }
\* There is no try/catch and response.ok is never read.
WebSearchExecute(q, outcome) ==
    IF outcome.fetch = "reject" THEN Raised(q)
    ELSE IF outcome.body.kind = "not-json" THEN Raised(q)
    ELSE IF outcome.body.kind = "null" THEN Raised(q)
    ELSE LET r == outcome.body.results IN
         IF r.kind \in {"undefined", "null"} THEN Returned(q, <<>>)
         ELSE IF r.kind # "array" THEN Raised(q)
         ELSE IF MapThrows(r.items) THEN Raised(q)
         ELSE Returned(q, MapResults(r.items))

InitSearch ==
    /\ searchQuery \in Queries
    /\ searchIn \in ProviderOutcomes
    /\ searchOut = NotRun

ExecuteSearch ==
    /\ searchOut = NotRun
    /\ searchOut' = WebSearchExecute(searchQuery, searchIn)
    /\ UNCHANGED <<searchQuery, searchIn, pruneVars, serverVars, clientVars,
                   historyVars, notifyVars>>

(***************************************************************************)
(* pruneMessages({ messages, toolCalls: "before-last-2-messages" })        *)
(***************************************************************************)

\* the number in the policy name "before-last-2-messages"
KeepLastMessages == 2
MaxPruneMessages == 4

TextPart == [type |-> "text", id |-> 0]
CallPart(i) == [type |-> "tool-call", id |-> i]
ResultPart(i) == [type |-> "tool-result", id |-> i]

\* A model message: user content is a string (isString), assistant and tool
\* content is a list of parts.
Msg(role, isString, content) ==
    [role |-> role, isString |-> isString, content |-> content]

MessageKinds ==
    { Msg("user", TRUE, <<TextPart>>),
      Msg("assistant", FALSE, <<>>),
      Msg("assistant", FALSE, <<TextPart>>),
      Msg("assistant", FALSE, <<CallPart(1)>>),
      Msg("assistant", FALSE, <<TextPart, CallPart(2)>>),
      Msg("assistant", FALSE, <<CallPart(1), CallPart(2)>>),
      Msg("tool", FALSE, <<ResultPart(1)>>),
      Msg("tool", FALSE, <<ResultPart(2)>>) }

IsToolPart(p) == p.type \in {"tool-call", "tool-result"}

\* messages.slice(-n)
LastMessages(msgs, n) ==
    SubSeq(msgs, Len(msgs) - Min(n, Len(msgs)) + 1, Len(msgs))

ToolCallIdsOf(m) ==
    IF m.role \in {"assistant", "tool"} /\ ~m.isString
    THEN { m.content[j].id : j \in { k \in 1..Len(m.content) : IsToolPart(m.content[k]) } }
    ELSE {}

\* the call ids of the tool parts of the kept (last n) messages
KeptToolCallIds(msgs, n) ==
    LET last == LastMessages(msgs, n) IN
    UNION { ToolCallIdsOf(last[i]) : i \in 1..Len(last) }

\* the content filter of a message that lies before the kept messages:
\* a tool part stays only when its call id occurs in a kept message
PruneContent(content, kept) ==
    LET Stays(p) == ~IsToolPart(p) \/ p.id \in kept
    IN SelectSeq(content, Stays)

\* the map over the messages: user messages, string content and the last n
\* messages are returned as they are
PruneToolCalls(msgs, n) ==
    LET kept == KeptToolCallIds(msgs, n) IN
    [i \in 1..Len(msgs) |->
        IF \/ msgs[i].role \notin {"assistant", "tool"}
           \/ msgs[i].isString
           \/ i > Len(msgs) - n
        THEN msgs[i]
        ELSE [msgs[i] EXCEPT !.content = PruneContent(@, kept)]]

\* emptyMessages: "remove" (the default)
RemoveEmpty(msgs) ==
    LET NonEmpty(m) == Len(m.content) > 0
    IN SelectSeq(msgs, NonEmpty)

\* the order a slip would give: empty messages are dropped before the tool
\* parts are filtered, so a message the filter empties stays in the list
PruneMessagesEmptyFirst(msgs) ==
    PruneToolCalls(RemoveEmpty(msgs), KeepLastMessages)

PruneMessages(msgs) ==
    RemoveEmpty(PruneToolCalls(msgs, KeepLastMessages))

MessageLists == UNION { [1..n -> MessageKinds] : n \in 0..MaxPruneMessages }

InitPrune ==
    /\ pruneIn \in MessageLists
    /\ pruneOnce = <<>>
    /\ pruneTwice = <<>>
    /\ prunePc = 0

PruneFirst ==
    /\ prunePc = 0
    /\ pruneOnce' = PruneMessages(pruneIn)
    /\ prunePc' = 1
    /\ UNCHANGED <<pruneIn, pruneTwice, searchVars, serverVars, clientVars,
                   historyVars, notifyVars>>

PruneAgain ==
    /\ prunePc = 1
    /\ pruneTwice' = PruneMessages(pruneOnce)
    /\ prunePc' = 2
    /\ UNCHANGED <<pruneIn, pruneOnce, searchVars, serverVars, clientVars,
                   historyVars, notifyVars>>

(***************************************************************************)
(* The session: Chat (client) and ChatAgent.onChatMessage (server)         *)
(***************************************************************************)

\* stopWhen: stepCountIs(10)
MaxSteps == 10
\* tool calls the model emits in one generation step
MaxCallsPerStep == 2
\* onChatMessage invocations per user Message: the first, and one more after
\* each step that ended on a client-side tool call
MaxRuns == 2
\* user Messages of one session
MaxUserMessages == 2

Tools == {"webSearch", "getUserTimezone"}

\* webSearch is declared with an execute body, getUserTimezone without one
HasExecute(tool) == tool = "webSearch"

Active == {"Generating", "Executing", "AwaitClient"}
Terminal == {"Done", "Cancelled", "Error"}

\* a client that treats a failed generation as one still under way
isStreamingOrFailed == status \in {"streaming", "submitted", "error"}

\* const isStreaming = status === "streaming" || status === "submitted"
isStreaming == status \in {"streaming", "submitted"}

ModelText == [type |-> "text", id |-> 0, tool |-> "none", from |-> "model", isError |-> FALSE]
ToolCall(id, tool) ==
    [type |-> "tool-call", id |-> id, tool |-> tool, from |-> "model", isError |-> FALSE]
ToolResult(id, tool, from, isError) ==
    [type |-> "tool-result", id |-> id, tool |-> tool, from |-> from, isError |-> isError]

Indexes(parts, type) == { i \in 1..Len(parts) : parts[i].type = type }
CallIds(parts) == { parts[i].id : i \in Indexes(parts, "tool-call") }
ResultsFor(parts, id) == { i \in Indexes(parts, "tool-result") : parts[i].id = id }
ToolOf(parts, id) ==
    parts[CHOOSE i \in Indexes(parts, "tool-call") : parts[i].id = id].tool
\* the calls with no tool-result yet
Unanswered(parts) == { id \in CallIds(parts) : ResultsFor(parts, id) = {} }
\* the calls that do not have exactly one tool-result
Mismatched(parts) == { id \in CallIds(parts) : Cardinality(ResultsFor(parts, id)) # 1 }
\* the outputs the streamText call itself produced for the calls of the step
\* (values and errors of execute); a client-supplied output is not among them
ExecuteOutputs(parts) ==
    { i \in Indexes(parts, "tool-result") : parts[i].from = "execute" }

\* The provider outcomes a webSearch call of the loop can meet.
LoopOutcomes ==
    { o \in ProviderOutcomes :
        \/ o.fetch = "reject"
        \/ o.status = 500 /\ o.body.kind = "not-json"
        \/ o.status = 500 /\ o.body.kind = "object" /\ o.body.results.kind = "undefined"
        \/ /\ o.status = 200 /\ o.body.kind = "object" /\ o.body.results.kind = "array"
           /\ Len(o.body.results.items) = 1
           /\ o.body.results.items[1].kind = "object"
           /\ o.body.results.items[1].content.kind = "string"
           /\ Len(o.body.results.items[1].content.chars) = 0 }

\* the status the client shows once no stream is open
StatusAtRest == IF queued > 0 THEN "submitted" ELSE "ready"

InitSession ==
    /\ phase = "Idle"
    /\ stepCount = 0
    /\ runs = 0
    /\ stepParts = <<>>
    /\ inflight = {}
    /\ handled = 0
    /\ mismatched = 0
    /\ endedBy = "none"
    /\ status = "ready"
    /\ promptBubble = FALSE
    /\ queued = 0
    /\ messages = <<>>
    /\ sent = 0

\* ---- client: sending a user Message

RECURSIVE TrimStart(_)
TrimStart(text) ==
    IF text # <<>> /\ Head(text) = " " THEN TrimStart(Tail(text)) ELSE text
RECURSIVE TrimEnd(_)
TrimEnd(text) ==
    IF text # <<>> /\ text[Len(text)] = " "
    THEN TrimEnd(SubSeq(text, 1, Len(text) - 1)) ELSE text
\* String.prototype.trim
Trim(text) == TrimEnd(TrimStart(text))

Inputs == { <<>>, <<" ">>, <<"q">>, <<" ", "q", " ">> }

\* sendMessage({ role: "user", parts: [...] })
sendMessage ==
    /\ sent < MaxUserMessages
    /\ messages' = Append(messages, "user")
    /\ queued' = queued + 1
    /\ sent' = sent + 1
    /\ status' = "submitted"
    /\ UNCHANGED <<searchVars, pruneVars, historyVars, notifyVars, serverVars, promptBubble>>

\* const send = useCallback(...): if (!text || isStreaming) return
send(input) ==
    /\ Trim(input) # <<>>
    /\ ~isStreaming
    /\ sendMessage

\* the empty-state suggestion buttons: shown when messages.length === 0,
\* disabled={isStreaming}
SuggestionClick ==
    /\ Len(messages) = 0
    /\ ~isStreaming
    /\ sendMessage

\* the prompt bubble's onClick: shown whenever promptBubble is set
BubbleClick ==
    /\ promptBubble
    /\ sendMessage

\* showBubble, on mount and every 10 s
ShowBubble ==
    /\ promptBubble' = TRUE
    /\ UNCHANGED <<searchVars, pruneVars, historyVars, notifyVars, serverVars, status, queued, messages, sent>>

\* the 6.5 s timeout of showBubble
HideBubble ==
    /\ promptBubble
    /\ promptBubble' = FALSE
    /\ UNCHANGED <<searchVars, pruneVars, historyVars, notifyVars, serverVars, status, queued, messages, sent>>

\* ---- server: ChatAgent.onChatMessage and the streamText loop

\* a stop condition that is one step late
StopWhenOneLate(n) == n > MaxSteps

\* stopWhen: stepCountIs(10), read after each finished step
StopWhen(n) == n >= MaxSteps

\* onChatMessage: the agent takes the next user Message and calls streamText,
\* which issues the first generation step
OnChatMessage ==
    /\ queued > 0
    /\ phase \notin Active
    /\ queued' = queued - 1
    /\ messages' = Append(messages, "assistant")
    /\ phase' = "Generating"
    /\ stepCount' = 1
    /\ runs' = 1
    /\ stepParts' = <<>>
    /\ inflight' = {}
    /\ handled' = 0
    /\ mismatched' = 0
    /\ endedBy' = "none"
    /\ status' = "streaming"
    /\ UNCHANGED <<searchVars, pruneVars, historyVars, notifyVars, promptBubble, sent>>

\* the model emits a tool-call fragment: the tool-call Part is appended, and a
\* tool that has an execute body starts running
ModelEmitToolCall(tool) ==
    /\ phase = "Generating"
    /\ Cardinality(CallIds(stepParts)) < MaxCallsPerStep
    /\ Indexes(stepParts, "text") = {}
    /\ ~HasExecute(tool) => runs < MaxRuns
    /\ LET id == Cardinality(CallIds(stepParts)) + 1 IN
        /\ stepParts' = Append(stepParts, ToolCall(id, tool))
        /\ inflight' = IF HasExecute(tool) THEN inflight \cup {id} ELSE inflight
    /\ UNCHANGED <<searchVars, pruneVars, historyVars, notifyVars, clientVars,
                   phase, stepCount, runs, handled, mismatched, endedBy>>

\* the model emits text (a step without tool calls: the answer)
ModelEmitText ==
    /\ phase = "Generating"
    /\ stepParts = <<>>
    /\ stepParts' = Append(stepParts, ModelText)
    /\ UNCHANGED <<searchVars, pruneVars, historyVars, notifyVars, clientVars,
                   phase, stepCount, runs, inflight, handled, mismatched, endedBy>>

\* the model's stream of this step ends with its finish event
ModelFinish ==
    /\ phase = "Generating"
    /\ phase' = "Executing"
    /\ UNCHANGED <<searchVars, pruneVars, historyVars, notifyVars, clientVars,
                   stepCount, runs, stepParts, inflight, handled, mismatched, endedBy>>

\* the generation call fails (the hosted model is unreachable)
GenerationFails ==
    /\ phase = "Generating"
    /\ phase' = "Error"
    /\ endedBy' = "error"
    /\ inflight' = {}
    /\ status' = "error"
    /\ UNCHANGED <<searchVars, pruneVars, historyVars, notifyVars, promptBubble, queued, messages, sent,
                   stepCount, runs, stepParts, handled, mismatched>>

\* a loop that a raised exception of execute ends in an error
PhaseAfterToolFatal(p, raised) == IF raised THEN "Error" ELSE p

\* the phase after a webSearch execution settled: a raised exception becomes
\* the call's error output and the loop goes on
PhaseAfterTool(p, raised) == p

\* a webSearch execution settles: with what execute returned, or with the
\* exception it raised as the call's error output. The executions of one step
\* may settle in any order. An execution that settles while the model still
\* emits is taken up here once the model's stream of the step has ended: the
\* place of a result among later tool-call Parts is not modelled.
ToolReturn(id, outcome) ==
    /\ phase = "Executing"
    /\ id \in inflight
    /\ LET out == WebSearchExecute(searchQuery, outcome) IN
        /\ stepParts' = Append(stepParts,
                ToolResult(id, "webSearch", "execute", out.kind = "raised"))
        /\ phase' = PhaseAfterTool(phase, out.kind = "raised")
    /\ inflight' = inflight \ {id}
    /\ UNCHANGED <<searchVars, pruneVars, historyVars, notifyVars, clientVars,
                   stepCount, runs, handled, mismatched, endedBy>>

\* The end of a step: another step is issued when the step made tool calls,
\* every one of them has an output of its execute, and the stop condition is
\* not met; otherwise the streamText call ends.
NextStepWanted(parts, n) ==
    /\ CallIds(parts) # {}
    /\ Cardinality(ExecuteOutputs(parts)) = Cardinality(CallIds(parts))
    /\ ~StopWhen(n)

WhyEnded(parts) ==
    IF CallIds(parts) = {} THEN "stop"
    ELSE IF Cardinality(ExecuteOutputs(parts)) # Cardinality(CallIds(parts)) THEN "client-tool"
    ELSE "step-cap"

\* the state a streamText call ends in: it waits for the client when a call
\* has no execute output, and is Done otherwise
PhaseAtEnd(why) == IF why = "client-tool" THEN "AwaitClient" ELSE "Done"

StepEnd ==
    /\ phase = "Executing"
    /\ inflight = {}
    /\ IF NextStepWanted(stepParts, stepCount)
       THEN /\ stepCount' = stepCount + 1
            /\ phase' = "Generating"
            /\ mismatched' = mismatched + Cardinality(Mismatched(stepParts))
            /\ stepParts' = <<>>
            /\ handled' = 0
            /\ UNCHANGED <<endedBy, status>>
       ELSE /\ endedBy' = WhyEnded(stepParts)
            /\ phase' = PhaseAtEnd(WhyEnded(stepParts))
            /\ status' = IF PhaseAtEnd(WhyEnded(stepParts)) = "Done"
                         THEN StatusAtRest ELSE status
            /\ UNCHANGED <<stepCount, mismatched, stepParts, handled>>
    /\ UNCHANGED <<searchVars, pruneVars, historyVars, notifyVars, promptBubble, queued, messages, sent,
                   runs, inflight>>

\* ---- client: onToolCall and the Stop button

\* a handler that does not look at the tool name
AnswersAnyCall(tool) == TRUE

\* a handler that compares with a tool name no tool has
AnswersNoCall(tool) == tool = "getTimezone"

\* event.toolCall.toolName === "getUserTimezone"
AnswersCall(tool) == tool = "getUserTimezone"

\* onToolCall: called for each tool call the client receives; it adds an
\* output, keyed by the call's toolCallId, for getUserTimezone only
OnToolCall(id) ==
    /\ phase \in Active
    /\ id \in CallIds(stepParts)
    /\ id = handled + 1
    /\ handled' = id
    /\ stepParts' = IF AnswersCall(ToolOf(stepParts, id))
                    THEN Append(stepParts,
                            ToolResult(id, ToolOf(stepParts, id), "client", FALSE))
                    ELSE stepParts
    /\ UNCHANGED <<searchVars, pruneVars, historyVars, notifyVars, clientVars,
                   phase, stepCount, runs, inflight, mismatched, endedBy>>

\* the agent continues after the client's tool output: onChatMessage runs
\* again for the same user Message, with a new streamText call whose step
\* count starts again (the streamText call that made the tool call has ended)
ContinueAfterToolResult ==
    /\ phase = "AwaitClient"
    /\ Unanswered(stepParts) = {}
    /\ phase' = "Generating"
    /\ stepCount' = 1
    /\ runs' = runs + 1
    /\ mismatched' = mismatched + Cardinality(Mismatched(stepParts))
    /\ stepParts' = <<>>
    /\ handled' = 0
    /\ endedBy' = "none"
    /\ UNCHANGED <<searchVars, pruneVars, historyVars, notifyVars, clientVars, inflight>>

\* what is left of the step's Parts when the abort signal fires: the Parts
\* already appended stay, the results of executions in flight are discarded
PartsAfterAbort(parts) == parts

\* the Stop button (shown while isStreaming) calls stop(): the abort signal
\* given to streamText fires
Abort ==
    /\ isStreaming
    /\ phase \in {"Generating", "Executing"}
    /\ phase' = "Cancelled"
    /\ endedBy' = "abort"
    /\ stepParts' = PartsAfterAbort(stepParts)
    /\ inflight' = {}
    /\ status' = StatusAtRest
    /\ UNCHANGED <<searchVars, pruneVars, historyVars, notifyVars, promptBubble, queued, messages, sent,
                   stepCount, runs, handled, mismatched>>

(***************************************************************************)
(* The stored history: this.messages, the context onChatMessage builds     *)
(* from it, and the Clear button                                           *)
(***************************************************************************)

\* Messages of one stored history
MaxStored == 3

StepStartPart == [type |-> "step-start", id |-> 0]

\* a stored Message: its role and its ordered Parts
StoredMsg(role, parts) == [role |-> role, parts |-> parts]

StoredUser == StoredMsg("user", <<TextPart>>)

\* The assistant Messages a run leaves: an answer; a search, its result and
\* the answer of the next step; a search and its result with no answer (the
\* step cap); a tool call with no result (a client tool that waits, or an
\* aborted search).
ReplyShapes == {"answer", "search-answer", "search", "pending"}
AssistantReply(shape, id) ==
    StoredMsg("assistant",
        CASE shape = "answer" -> <<StepStartPart, TextPart>>
          [] shape = "search-answer" ->
                <<StepStartPart, CallPart(id), ResultPart(id), StepStartPart, TextPart>>
          [] shape = "search" -> <<StepStartPart, CallPart(id), ResultPart(id)>>
          [] OTHER -> <<StepStartPart, CallPart(id)>>)

PartCallIds(parts) == { parts[i].id : i \in { k \in 1..Len(parts) : parts[k].type = "tool-call" } }
PartResultIds(parts) == { parts[i].id : i \in { k \in 1..Len(parts) : parts[k].type = "tool-result" } }
\* the tool calls of a stored Message that have no result
PendingCalls(m) == PartCallIds(m.parts) \ PartResultIds(m.parts)

\* convertToModelMessages, an assistant Message: its Parts are cut into
\* blocks at the step-start Parts ...
RECURSIVE SplitBlocks(_, _)
SplitBlocks(parts, blocks) ==
    IF parts = <<>> THEN blocks
    ELSE IF Head(parts).type = "step-start"
         THEN SplitBlocks(Tail(parts), Append(blocks, <<>>))
         ELSE SplitBlocks(Tail(parts),
                IF blocks = <<>> THEN << <<Head(parts)>> >>
                ELSE [blocks EXCEPT ![Len(blocks)] = Append(@, Head(parts))])

\* ... and each block gives an assistant message with the text and the tool
\* calls, followed by a tool message with the tool results
BlockMessages(block) ==
    LET IsResult(q) == q.type = "tool-result"
        NotResult(q) == q.type # "tool-result"
        said == SelectSeq(block, NotResult)
        results == SelectSeq(block, IsResult)
    IN (IF said = <<>> THEN <<>> ELSE <<Msg("assistant", FALSE, said)>>)
       \o (IF results = <<>> THEN <<>> ELSE <<Msg("tool", FALSE, results)>>)

RECURSIVE ConcatBlocks(_)
ConcatBlocks(blocks) ==
    IF blocks = <<>> THEN <<>>
    ELSE BlockMessages(Head(blocks)) \o ConcatBlocks(Tail(blocks))

\* convertToModelMessages(this.messages): a new list of model messages
RECURSIVE ConvertToModelMessages(_)
ConvertToModelMessages(ui) ==
    IF ui = <<>> THEN <<>>
    ELSE (IF Head(ui).role = "user"
          THEN <<Msg("user", TRUE, Head(ui).parts)>>
          ELSE ConcatBlocks(SplitBlocks(Head(ui).parts, <<>>)))
         \o ConvertToModelMessages(Tail(ui))

\* a pruning done on the stored Messages themselves: the tool Parts that
\* the pruned context no longer holds are dropped from this.messages
StoredPrunedInPlace(ui) ==
    LET view == PruneMessages(ConvertToModelMessages(ui))
        kept == UNION { ToolCallIdsOf(view[i]) : i \in 1..Len(view) }
        Stays(q) == ~IsToolPart(q) \/ q.id \in kept
    IN [i \in 1..Len(ui) |-> [ui[i] EXCEPT !.parts = SelectSeq(@, Stays)]]

\* this.messages after the context was built: onChatMessage reads it and
\* hands the converted list to pruneMessages; it assigns nothing to it
StoredAfterContext(ui) == ui

HistoryAtRest ==
    /\ stored = <<>>
    /\ context = <<>>

NotifyAtRest ==
    /\ tasks = 0
    /\ frames = 0
    /\ channel = <<>>
    /\ toasts = <<>>

\* the agent stores the user Message the client sent with sendMessage
StoreUserMessage ==
    /\ Len(stored) < MaxStored
    /\ stored' = Append(stored, StoredUser)
    /\ UNCHANGED <<searchVars, pruneVars, serverVars, clientVars, notifyVars, context>>

\* onChatMessage builds the context of its streamText call:
\* pruneMessages({ messages: await convertToModelMessages(this.messages), ... })
BuildContext ==
    /\ stored # <<>>
    /\ context' = PruneMessages(ConvertToModelMessages(stored))
    /\ stored' = StoredAfterContext(stored)
    /\ UNCHANGED <<searchVars, pruneVars, serverVars, clientVars, notifyVars>>

\* the run's assistant Message is stored
StoreReply(shape) ==
    /\ stored # <<>>
    /\ Len(stored) < MaxStored
    /\ stored[Len(stored)].role = "user"
    /\ stored' = Append(stored, AssistantReply(shape, Len(stored) + 1))
    /\ UNCHANGED <<searchVars, pruneVars, serverVars, clientVars, notifyVars, context>>

\* the output the client's onToolCall added is stored as the tool-result
\* Part of the call
StoreToolOutput(i) ==
    /\ i \in 1..Len(stored)
    /\ PendingCalls(stored[i]) # {}
    /\ LET id == CHOOSE c \in PendingCalls(stored[i]) : TRUE IN
        stored' = [stored EXCEPT ![i].parts = Append(@, ResultPart(id))]
    /\ UNCHANGED <<searchVars, pruneVars, serverVars, clientVars, notifyVars, context>>

\* the Clear button: onClick={clearHistory}
ClearHistory ==
    /\ stored # <<>>
    /\ stored' = <<>>
    /\ UNCHANGED <<searchVars, pruneVars, serverVars, clientVars, notifyVars, context>>

(***************************************************************************)
(* Notifications: ChatAgent.executeTask and the client's onMessage         *)
(***************************************************************************)

\* scheduled tasks that fire in one session
MaxTasks == 1
\* frames other than notifications put on the channel in one session
MaxOtherFrames == 1

Descriptions == {"d1", "d2"}

\* JSON values: null, a number, or an object with its type and description
\* properties (a property that is missing is "undefined")
JsonNull == [kind |-> "null", type |-> "undefined", description |-> "undefined"]
JsonNumber == [kind |-> "number", type |-> "undefined", description |-> "undefined"]
JsonObject(type, description) ==
    [kind |-> "object", type |-> type, description |-> description]

\* JSON.stringify(value): the text of a frame
JsonStringify(value) == [json |-> TRUE, value |-> value]
\* a frame whose text is not JSON
NotJsonText == [json |-> FALSE, value |-> JsonNull]

\* JSON.parse(String(message.data)): a value, or a SyntaxError
JsonParse(text) ==
    IF text.json THEN [threw |-> FALSE, value |-> text.value]
    ELSE [threw |-> TRUE, value |-> JsonNull]

\* the event executeTask broadcasts (its timestamp, which the client does not
\* read, is left out)
ScheduledTaskEvent(description) == JsonObject("scheduled-task", description)

\* the other traffic of the channel: the chat protocol's frames, state
\* frames, text that is not JSON
OtherFrames ==
    { NotJsonText,
      JsonStringify(JsonNull),
      JsonStringify(JsonNumber),
      JsonStringify(JsonObject("undefined", "d1")),
      JsonStringify(JsonObject("cf_agent_use_chat_response", "undefined")) }

\* executeTask(description, _task): this.broadcast(JSON.stringify({type:
\* "scheduled-task", description, timestamp}))
ExecuteTask(description) ==
    /\ tasks < MaxTasks
    /\ tasks' = tasks + 1
    /\ channel' = Append(channel, JsonStringify(ScheduledTaskEvent(description)))
    /\ UNCHANGED <<searchVars, pruneVars, serverVars, clientVars, historyVars,
                   frames, toasts>>

\* another frame is sent to the client
OtherFrame(frame) ==
    /\ frames < MaxOtherFrames
    /\ frames' = frames + 1
    /\ channel' = Append(channel, frame)
    /\ UNCHANGED <<searchVars, pruneVars, serverVars, clientVars, historyVars,
                   tasks, toasts>>

\* a handler that shows a notification for every frame that parses
NotifiesAnyJson(text) == ~JsonParse(text).threw

\* the body of onMessage: try { data = JSON.parse(...); if (data.type ===
\* "scheduled-task") toasts.add(...) } catch {}. Reading data.type of null
\* throws, and the catch block swallows it.
Notifies(text) ==
    LET parsed == JsonParse(text) IN
    IF parsed.threw THEN FALSE
    ELSE IF parsed.value.kind = "null" THEN FALSE
    ELSE parsed.value.type = "scheduled-task"

Toast(text) ==
    [title |-> "Scheduled task completed", description |-> JsonParse(text).value.description]

\* onMessage: the client receives the next frame of the channel
OnMessage ==
    /\ channel # <<>>
    /\ channel' = Tail(channel)
    /\ toasts' = IF Notifies(Head(channel))
                 THEN Append(toasts, Toast(Head(channel)))
                 ELSE toasts
    /\ UNCHANGED <<searchVars, pruneVars, serverVars, clientVars, historyVars,
                   tasks, frames>>

\* ---- specifications

SearchAtRest ==
    /\ searchQuery = "q1"
    /\ searchIn = CHOOSE o \in ProviderOutcomes : o.fetch = "reject"
    /\ searchOut = NotRun

PruneAtRest ==
    /\ pruneIn = <<>>
    /\ pruneOnce = <<>>
    /\ pruneTwice = <<>>
    /\ prunePc = 0

Init == SearchAtRest /\ PruneAtRest /\ InitSession /\ HistoryAtRest /\ NotifyAtRest

Next ==
    \/ \E input \in Inputs : send(input)
    \/ SuggestionClick
    \/ BubbleClick
    \/ ShowBubble
    \/ HideBubble
    \/ OnChatMessage
    \/ \E tool \in Tools : ModelEmitToolCall(tool)
    \/ ModelEmitText
    \/ ModelFinish
    \/ GenerationFails
    \/ \E id \in 1..MaxCallsPerStep, outcome \in LoopOutcomes : ToolReturn(id, outcome)
    \/ StepEnd
    \/ \E id \in 1..MaxCallsPerStep : OnToolCall(id)
    \/ ContinueAfterToolResult
    \/ Abort

Spec == Init /\ [][Next]_vars

\* The model, the tools, the client's handler and the agent are scheduled
\* fairly; the user's clicks and the generation failure are not forced.
Fairness ==
    /\ WF_vars(OnChatMessage)
    /\ WF_vars(ModelFinish)
    /\ WF_vars(\E id \in 1..MaxCallsPerStep, outcome \in LoopOutcomes : ToolReturn(id, outcome))
    /\ WF_vars(StepEnd)
    /\ WF_vars(\E id \in 1..MaxCallsPerStep : OnToolCall(id))
    /\ WF_vars(ContinueAfterToolResult)

SpecFair == Spec /\ Fairness

NextSearch == ExecuteSearch

InitSearchOnly ==
    InitSearch /\ PruneAtRest /\ InitSession /\ HistoryAtRest /\ NotifyAtRest

SpecSearch == InitSearchOnly /\ [][NextSearch]_vars

NextPrune == PruneFirst \/ PruneAgain

InitPruneOnly ==
    SearchAtRest /\ InitPrune /\ InitSession /\ HistoryAtRest /\ NotifyAtRest

SpecPrune == InitPruneOnly /\ [][NextPrune]_vars

NextHistory ==
    \/ StoreUserMessage
    \/ BuildContext
    \/ \E shape \in ReplyShapes : StoreReply(shape)
    \/ \E i \in 1..MaxStored : StoreToolOutput(i)
    \/ ClearHistory
    \/ \E description \in Descriptions : ExecuteTask(description)

SpecHistory == Init /\ [][NextHistory]_vars

\* the agent's side of the session, with the notifications
NextNotify ==
    \/ \E input \in Inputs : send(input)
    \/ OnChatMessage
    \/ \E tool \in Tools : ModelEmitToolCall(tool)
    \/ ModelEmitText
    \/ ModelFinish
    \/ GenerationFails
    \/ \E id \in 1..MaxCallsPerStep, outcome \in LoopOutcomes : ToolReturn(id, outcome)
    \/ StepEnd
    \/ \E id \in 1..MaxCallsPerStep : OnToolCall(id)
    \/ ContinueAfterToolResult
    \/ Abort
    \/ \E description \in Descriptions : ExecuteTask(description)
    \/ \E frame \in OtherFrames : OtherFrame(frame)
    \/ OnMessage

SpecNotify == Init /\ [][NextNotify]_vars

(***************************************************************************)
(* Properties of webSearch.execute (SpecSearch)                            *)
(***************************************************************************)

\* C4: whatever the provider answers, the returned results list has at most
\* 5 entries and each entry's content has at most 500 characters.
C4_AtMostFiveResultsOf500 ==
    searchOut.kind = "returned" =>
        /\ Len(searchOut.results) <= MaxResultsRequested
        /\ \A i \in 1..Len(searchOut.results) :
              searchOut.results[i].content.kind = "string"
                  => Len(searchOut.results[i].content.chars) <= SliceLimit

\* What the code does hold to: one entry per entry of the provider, each
\* string content cut to 500 characters.
SearchKeepsEveryEntryCut ==
    searchOut.kind = "returned" /\ searchIn.body.results.kind = "array" =>
        /\ Len(searchOut.results) = Len(searchIn.body.results.items)
        /\ \A i \in 1..Len(searchOut.results) :
              Len(searchOut.results[i].content.chars) <= SliceLimit

\* the provider outcomes that are failures or malformed answers
FailingOutcome(o) ==
    \/ o.fetch = "reject"
    \/ o.status # 200
    \/ o.body.kind \in {"not-json", "null"}
    \/ o.body.results.kind # "array"

\* C5: on every failing or malformed provider outcome execute returns
\* {query, results: []} and does not raise.
C5_FailureGivesEmptyResults ==
    searchOut # NotRun /\ FailingOutcome(searchIn) =>
        searchOut = Returned(searchQuery, <<>>)

\* The failing outcomes the code does turn into an empty list: a JSON object
\* whose results property is missing or null, whatever the HTTP status.
SearchEmptyOnMissingResults ==
    /\ searchOut # NotRun
    /\ searchIn.fetch = "resolve"
    /\ searchIn.body.kind = "object"
    /\ searchIn.body.results.kind \in {"undefined", "null"}
    => searchOut = Returned(searchQuery, <<>>)

(***************************************************************************)
(* Properties of pruneMessages (SpecPrune)                                 *)
(***************************************************************************)

\* C9: pruning with "before-last-2-messages" is idempotent: pruning the
\* pruned list again returns the pruned list.
C9_PruneIdempotent ==
    prunePc = 2 => pruneTwice = pruneOnce

\* a list whose first pruning dropped tool parts and removed a message, so
\* that the kept last two messages of the second pruning are other ones
C9_Witness ==
    /\ prunePc = 2
    /\ Len(pruneOnce) < Len(pruneIn)
    /\ Len(pruneOnce) >= KeepLastMessages + 1
    /\ LastMessages(pruneOnce, KeepLastMessages) # LastMessages(pruneIn, KeepLastMessages)
    /\ \E i \in 1..Len(pruneOnce) - KeepLastMessages : ToolCallIdsOf(pruneOnce[i]) # {}

(***************************************************************************)
(* Properties of the session (Spec, SpecFair)                              *)
(***************************************************************************)

ErrorResults(parts) == { i \in Indexes(parts, "tool-result") : parts[i].isError }
ClientResults(parts) == { i \in Indexes(parts, "tool-result") : parts[i].from = "client" }
UnansweredClientCalls(parts) ==
    { id \in Unanswered(parts) : ~HasExecute(ToolOf(parts, id)) }
\* the assistant Message holds no tool call without exactly one tool-result
AllCallsResolved == mismatched = 0 /\ Mismatched(stepParts) = {}

C2_EveryCallResolvedAtEnd ==
    phase \in {"Done", "Cancelled"} => AllCallsResolved

\* The part of C2 that holds: without cancellation every call is resolved
\* when the step sequence is Done.
CallsResolvedAtDone == phase = "Done" => AllCallsResolved

\* C3: a getUserTimezone call stays pending until the client's onToolCall
\* adds an output with the call's id; no generation step for the same user
\* Message is issued while such a call is pending; and the client answers
\* getUserTimezone calls only.
C3_ClientToolPending ==
    /\ [](\A i \in Indexes(stepParts, "tool-result") :
            /\ stepParts[i].id \in CallIds(SubSeq(stepParts, 1, i - 1))
            /\ stepParts[i].tool = ToolOf(stepParts, stepParts[i].id)
            /\ (stepParts[i].from = "client") = (stepParts[i].tool = "getUserTimezone"))
    /\ [][ (stepCount' # stepCount /\ queued' = queued)
              => UnansweredClientCalls(stepParts) = {} ]_vars
    /\ [][ \A id \in UnansweredClientCalls(stepParts) :
              \/ id \in UnansweredClientCalls(stepParts')
              \/ /\ handled' = id
                 /\ stepParts' = Append(stepParts,
                        ToolResult(id, "getUserTimezone", "client", FALSE))
              \/ queued' # queued ]_vars

\* the client answered the pending getUserTimezone call and the agent is
\* about to go on
C3_Witness ==
    /\ phase = "AwaitClient"
    /\ Unanswered(stepParts) = {}
    /\ ClientResults(stepParts) # {}

\* C6 as stated: any recorded webSearch failure is followed by a further
\* generation step, so a sequence that is Done has no failure in its last step.
C6_FailureFollowedByStep ==
    phase = "Done" => ErrorResults(stepParts) = {}

\* C6 as amended: a webSearch failure is recorded as its call's tool-result and
\* leaves the phase as it is; only the generation call puts the sequence
\* into Error; and a step with a recorded failure is followed by a further
\* generation step when all its calls have outputs and the cap is not reached
\* (at the cap the sequence is Done).
C6_FailureIsNotFatal ==
    /\ [](phase = "Error" => endedBy = "error")
    /\ [][ Cardinality(ErrorResults(stepParts')) > Cardinality(ErrorResults(stepParts))
              => /\ phase' = phase
                 /\ \E id \in inflight :
                       /\ inflight' = inflight \ {id}
                       /\ stepParts' = Append(stepParts,
                              ToolResult(id, "webSearch", "execute", TRUE)) ]_vars
    /\ [][ ( /\ phase = "Executing" /\ phase' \notin {"Executing", "Cancelled"}
             /\ ErrorResults(stepParts) # {}
             /\ Cardinality(ExecuteOutputs(stepParts)) = Cardinality(CallIds(stepParts)) )
              => IF stepCount < MaxSteps
                 THEN phase' = "Generating" /\ stepCount' = stepCount + 1
                 ELSE phase' = "Done" /\ stepCount' = stepCount ]_vars

\* a step whose only call failed has ended and the next step is due
C6_Witness ==
    /\ phase = "Executing"
    /\ inflight = {}
    /\ ErrorResults(stepParts) # {}
    /\ NextStepWanted(stepParts, stepCount)

\* C7: after an abort the Message holds no tool-call Part without a
\* tool-result Part.
C7_NoOrphanAfterAbort ==
    phase = "Cancelled" => mismatched = 0 /\ Unanswered(stepParts) = {}

\* The part of C7 that holds: no generation step follows the abort until a
\* later user Message is taken up.
NoStepAfterAbort ==
    [][phase = "Cancelled" /\ queued' = queued
          => phase' = "Cancelled" /\ stepCount' = stepCount]_vars

\* C8: no user Message is accepted while the status is streaming or
\* submitted.
C8_NoSendWhileStreaming ==
    [][sent' # sent => ~isStreaming]_vars

\* The part of C8 that holds: the typed send and the suggestion buttons are
\* guarded; only a shown prompt bubble sends while a generation is in flight.
OnlyBubbleSendsWhileStreaming ==
    [][sent' # sent /\ isStreaming => promptBubble]_vars

C11_ResultsInCallOrder ==
    /\ [](\A i, j \in Indexes(stepParts, "tool-result") :
            i < j => stepParts[i].id < stepParts[j].id)
    /\ [](\A i \in Indexes(stepParts, "tool-result") :
            stepParts[i].id \in CallIds(SubSeq(stepParts, 1, i - 1)))
    /\ [][ (stepCount' # stepCount /\ queued' = queued)
              => Unanswered(stepParts) = {} /\ inflight = {} ]_vars

\* The part of C11 that holds: every tool-result stands after its own
\* tool-call Part and a call has at most one result.
ResultAfterOwnCall ==
    \A i \in Indexes(stepParts, "tool-result") :
        /\ stepParts[i].id \in CallIds(SubSeq(stepParts, 1, i - 1))
        /\ ResultsFor(stepParts, stepParts[i].id) = {i}

\* The part of C11 that holds: when a further generation step of the same
\* user Message is issued, every call of the step before has its result and
\* no execution is still running.
ResultsBeforeNextStep ==
    [][ (stepCount' # stepCount /\ queued' = queued)
           => Unanswered(stepParts) = {} /\ inflight = {} ]_vars

\* The order the results do stand in: the order in which the executions
\* settled and the client answered.
ResultsInSettleOrder ==
    [][ Len(stepParts') > Len(stepParts) /\ stepParts'[Len(stepParts')].type = "tool-result"
           => /\ stepParts' = Append(stepParts, stepParts'[Len(stepParts')])
              /\ stepParts'[Len(stepParts')].id \in Unanswered(stepParts) ]_vars

\* C12: a failed generation call ends the step sequence in Error and is not
\* tried again; in every terminal state the client's send is open and the
\* agent takes a waiting user Message; and the sequence that leaves a
\* terminal state is a fresh one, for the next user Message, with its step
\* count at 1.
C12_ErrorTerminalThenFreshSequence ==
    /\ [][ phase = "Generating" /\ phase' = "Error"
              => /\ status' = "error" /\ endedBy' = "error"
                 /\ stepCount' = stepCount /\ messages' = messages ]_vars
    /\ [][ (phase \in Terminal /\ phase' # phase)
              => ( /\ queued > 0
                   /\ queued' = queued - 1
                   /\ phase' = "Generating"
                   /\ stepCount' = 1
                   /\ runs' = 1
                   /\ stepParts' = << >>
                   /\ inflight' = {}
                   /\ endedBy' = "none" ) ]_vars
    /\ [][ (phase \in Terminal) => (stepCount' \in {stepCount, 1}) ]_vars
    /\ [](phase \in Terminal /\ queued = 0 /\ sent < MaxUserMessages
            => ENABLED (\E input \in Inputs : send(input)))
    /\ [](phase \in Terminal /\ queued > 0 => ENABLED OnChatMessage)

\* a generation call failed after several steps, and the user has sent the
\* next Message, which the agent is about to take
C12_Witness ==
    /\ phase = "Error"
    /\ stepCount > 1
    /\ status = "submitted"
    /\ queued = 1
    /\ ~promptBubble


(***************************************************************************)
(* Properties of the stored history (SpecHistory)                          *)
(***************************************************************************)

IsPrefix(a, b) == Len(a) <= Len(b) /\ SubSeq(b, 1, Len(a)) = a

\* every Message of old is still there, in its place, with its Parts as the
\* first Parts of the Message it has become
GrowsByAppends(old, new) ==
    /\ Len(old) <= Len(new)
    /\ \A i \in 1..Len(old) :
          /\ new[i].role = old[i].role
          /\ IsPrefix(old[i].parts, new[i].parts)

\* C13: a step either appends to the stored Messages or clears them all;
\* building the context leaves the stored Messages as they are and yields
\* the pruned conversion of them; and executeTask does not touch them.
C13_StoredOnlyGrows ==
    /\ [][ stored' = << >> \/ GrowsByAppends(stored, stored') ]_vars
    /\ [][ context' # context
              => /\ stored' = stored
                 /\ context' = PruneMessages(ConvertToModelMessages(stored)) ]_vars
    /\ [][ tasks' # tasks => stored' = stored /\ context' = context ]_vars

\* a context from which the pruning dropped the search of an earlier
\* Message, while the stored Messages still hold that search
C13_Witness ==
    /\ Len(stored) = MaxStored
    /\ context = PruneMessages(ConvertToModelMessages(stored))
    /\ context # ConvertToModelMessages(stored)
    /\ \E i \in 1..Len(stored) : PartResultIds(stored[i].parts) # {}
    /\ \A i \in 1..Len(context) : ToolCallIdsOf(context[i]) = {}

\* In the session, too, the Message sequence changes by appends only.
MessagesOnlyAppended ==
    [][ messages' # messages
           => \E role \in {"user", "assistant"} : messages' = Append(messages, role) ]_vars

(***************************************************************************)
(* Properties of the notifications (SpecNotify)                            *)
(***************************************************************************)

IsTaskFrame(text) ==
    /\ text.json
    /\ text.value.kind = "object"
    /\ text.value.type = "scheduled-task"

\* C14: executeTask puts one frame of type scheduled-task on the channel
\* and changes neither the Message sequence nor the step sequence; the
\* client shows a notification for a frame exactly when the frame is JSON
\* of type scheduled-task.
C14_TaskNotifiedOutOfBand ==
    /\ [][ tasks' # tasks
              => /\ tasks' = tasks + 1
                 /\ \E d \in Descriptions :
                       channel' = Append(channel,
                           JsonStringify(JsonObject("scheduled-task", d)))
                 /\ UNCHANGED <<serverVars, clientVars, historyVars, toasts>> ]_vars
    /\ [][ toasts' # toasts
              => /\ channel # << >>
                 /\ IsTaskFrame(Head(channel))
                 /\ toasts' = Append(toasts,
                        [title |-> "Scheduled task completed",
                         description |-> Head(channel).value.description]) ]_vars
    /\ [][ (Len(channel') < Len(channel) /\ IsTaskFrame(Head(channel)))
              => Len(toasts') = Len(toasts) + 1 ]_vars
    /\ [](Len(toasts) <= tasks)

\* a task was notified and another frame was received without a
\* notification, while a webSearch execution of a later step is running
C14_Witness ==
    /\ phase = "Executing"
    /\ inflight # {}
    /\ stepCount > 1
    /\ tasks = MaxTasks
    /\ frames = MaxOtherFrames
    /\ channel = << >>
    /\ Len(toasts) = MaxTasks

====
